---- MODULE Spec2Model ----
(***************************************************************************)
(* Model of crates/languages/src/java.rs: the JavaLspAdapter that resolves *)
(* the latest JDT language server milestone, installs a Corretto runtime   *)
(* and the server into a container directory, and builds the command line  *)
(* that launches the server.                                               *)
(*                                                                         *)
(* Text is modelled by what the code does with it.  A version string is a  *)
(* sequence of ASCII codes (so that padding, byte-wise ordering and the    *)
(* byte slice [10..] are computed, not assumed).  A path or URL is a       *)
(* sequence of text tokens; joining appends tokens.                        *)
(***************************************************************************)
EXTENDS Integers, Sequences, FiniteSets, TLC

VARIABLES
    arch,           \* std::env::consts::ARCH of the build
    container_dir,  \* the container directory handed in by the host
    files,          \* paths that exist inside the container directory
    version_txt,    \* content of version.txt (<<>> while it does not exist)
    pc,             \* per task: the await point the task is suspended at
    jdtls_version,  \* per task: the version resolved / passed on
    requests,       \* per task: URLs requested by the running call
    archive,        \* per task: entries of the archive still to be unpacked
    response,       \* per task: the links of the page body just read
    fresh,          \* per task: the running call began on an empty container
    outcome,        \* what the call that finished last handed to the host
    returned,       \* every LanguageServerBinary handed out so far
    last_fetch      \* how the latest finished fetch_server_binary ended

vars == <<arch, container_dir, files, version_txt, pc, jdtls_version, requests,
          archive, response, fresh, outcome, returned, last_fetch>>

----------------------------------------------------------------------------
(* Bounds *)

\* most links on one milestone index page
MaxLinks == 3

\* the callers of the adapter
Tasks == {"t1", "t2"}

----------------------------------------------------------------------------
(* Text *)

Dash == 45
Dot == 46
Zero == 48

\* decimal digits of n, as ASCII codes
RECURSIVE Digits(_)
Digits(n) == IF n < 10 THEN <<Zero + n>> ELSE Digits(n \div 10) \o <<Zero + (n % 10)>>

\* the number a string of digits denotes
RECURSIVE Value(_)
Value(s) ==
    IF s = <<>> THEN 0
    ELSE 10 * Value(SubSeq(s, 1, Len(s) - 1)) + (s[Len(s)] - Zero)

\* byte-wise String ordering: a <= b
RECURSIVE StrLeq(_, _)
StrLeq(a, b) ==
    IF a = <<>> THEN TRUE
    ELSE IF b = <<>> THEN FALSE
    ELSE IF Head(a) < Head(b) THEN TRUE
    ELSE IF Head(a) > Head(b) THEN FALSE
    ELSE StrLeq(Tail(a), Tail(b))

\* format!("{:0>3}", s): left-pad with '0' to a MINIMUM width of 3
PadWidth == 3
Pad(s) == IF Len(s) >= PadWidth THEN s ELSE [i \in 1..(PadWidth - Len(s)) |-> Zero] \o s

\* "major.minor.patch"
Dotted(link) == link[1] \o <<Dot>> \o link[2] \o <<Dot>> \o link[3]

\* format!("{:0>3}{:0>3}{:0>3}-{}.{}.{}", major, minor, patch, major, minor, patch)
SortKey(link) == Pad(link[1]) \o Pad(link[2]) \o Pad(link[3]) \o <<Dash>> \o Dotted(link)

\* versions.sort(): ascending insertion into the sorted prefix
RECURSIVE Insert(_, _)
Insert(x, s) ==
    IF s = <<>> THEN <<x>>
    ELSE IF StrLeq(x, Head(s)) THEN <<x>> \o s
    ELSE <<Head(s)>> \o Insert(x, Tail(s))

RECURSIVE Sort(_)
Sort(s) == IF s = <<>> THEN <<>> ELSE Insert(Head(s), Sort(Tail(s)))

\* the keys pushed by the loop over version_re.captures_iter(&response)
versions(body) == [i \in 1..Len(body) |-> SortKey(body[i])]

\* &versions[versions.len() - 1][10..] after versions.sort()
SliceFrom == 10
LatestVersion(body) ==
    LET sorted == Sort(versions(body))
        last == sorted[Len(sorted)]
    IN SubSeq(last, SliceFrom + 1, Len(last))

----------------------------------------------------------------------------
(* Inputs: what the remote hosts serve *)

\* links that milestone index pages of the installer runs advertise
MainLinks == { <<Digits(1), Digits(9), Digits(0)>>, <<Digits(1), Digits(29), Digits(0)>> }

\* links for the resolver on its own: 1..3 digit and 4 digit components
Links == { <<Digits(m), Digits(n), Digits(0)>> : m \in {1, 200, 1000}, n \in {9, 29} }

RECURSIVE SeqsUpTo(_, _)
SeqsUpTo(S, n) ==
    IF n = 0 THEN { <<>> }
    ELSE LET shorter == SeqsUpTo(S, n - 1)
         IN shorter \cup { Append(s, x) : s \in shorter, x \in S }

\* an index page body is the sequence of its matching links, in page order
Bodies == SeqsUpTo(Links, MaxLinks)

\* the installer runs see index pages with no link or one
MainBodies == SeqsUpTo(MainLinks, 1)

----------------------------------------------------------------------------
(* Constants of java.rs *)

JDT_MILESTONES_URL == "https://download.eclipse.org"
JRE_21_MACOS_AARCH64 == "https://corretto.aws/downloads/latest/amazon-corretto-21-aarch64-macos-jdk.tar.gz"
JRE_21_MACOS_X64 == "https://corretto.aws/downloads/latest/amazon-corretto-21-x64-macos-jdk.tar.gz"
JAVA_HOME == "amazon-corretto-21.jdk/Contents/Home"

\* the relative paths the code names
JAVA_BIN == "amazon-corretto-21.jdk/Contents/Home/bin/java"
LAUNCHER_JAR == "plugins/org.eclipse.equinox.launcher_1.6.700.v20231214-2017.jar"
VERSION_TXT == "version.txt"
CONFIG_MAC == "config_mac"
CONFIG_MAC_ARM == "config_mac_arm"

\* a launcher jar as shipped by a release with another launcher build
OTHER_LAUNCHER_JAR == "plugins/org.eclipse.equinox.launcher_1.6.400.v20210924-0641.jar"

\* values of std::env::consts::ARCH: the two the code names and one other
Archs == {"aarch64", "x86_64", "riscv64"}
SupportedArchs == {"aarch64", "x86_64"}

\* container directories the host hands in (absolute; one name ends in a blank)
ContainerDirs == { <<"/zed/languages/java">>, <<"/zed/languages/java", " ">> }

----------------------------------------------------------------------------
(* Paths and the launch command *)

\* PathBuf::join(rel) for a relative rel
Join(dir, rel) == dir \o <<"/", rel>>

\* str::trim(): drop leading and trailing whitespace
RECURSIVE TrimStart(_)
TrimStart(s) == IF s # <<>> /\ Head(s) = " " THEN TrimStart(Tail(s)) ELSE s
RECURSIVE TrimEnd(_)
TrimEnd(s) == IF s # <<>> /\ s[Len(s)] = " " THEN TrimEnd(SubSeq(s, 1, Len(s) - 1)) ELSE s
Trim(s) == TrimEnd(TrimStart(s))

\* fn java(container_dir)
java(dir) == Join(dir, JAVA_BIN)

\* fn config(container_dir), for the ARCH of the build
config(dir) ==
    CASE arch = "aarch64" -> Join(dir, CONFIG_MAC)
      [] arch = "x86_64" -> Join(dir, CONFIG_MAC_ARM)
      [] OTHER -> <<>>

\* the flags between the jar and "-configuration"
FixedFlags ==
    << <<"-Declipse.application=org.eclipse.jdt.ls.core.id1">>,
       <<"-Dosgi.bundles.defaultStartLevel=4">>,
       <<"-Dosgi.checkConfiguration=true">>,
       <<"-Declipse.product=org.eclipse.jdt.ls.core.product">>,
       <<"-Dosgi.sharedConfiguration.area.readOnly=true">>,
       <<"-Dosgi.configuration.cascaded=true">>,
       <<"-Xmx1G">>,
       <<"--add-modules=ALL-SYSTEM">>,
       <<"--add-opens java.base/java.util=ALL-UNNAMED">>,
       <<"--add-opens java.base/java.lang=ALL-UNNAMED">> >>

\* arguments() as it would be if the jar were looked up in the container
arguments_Globbed(dir) ==
    LET name == IF OTHER_LAUNCHER_JAR \in files THEN OTHER_LAUNCHER_JAR ELSE LAUNCHER_JAR
        jar == Trim(Join(dir, name))
    IN << <<"-jar">>, jar >> \o FixedFlags
       \o << <<"-configuration">>, config(dir), <<"-data">>, <<".">> >>

\* fn arguments(container_dir)
arguments(dir) ==
    LET jar == Trim(Join(dir, LAUNCHER_JAR))
    IN << <<"-jar">>, jar >> \o FixedFlags
       \o << <<"-configuration">>, config(dir), <<"-data">>, <<".">> >>

\* LanguageServerBinary { path: java(..), arguments, env: None }
LanguageServerBinary(dir) == [path |-> java(dir), arguments |-> arguments(dir)]

\* jre21_url: match ARCH { .. }
jre21_url ==
    CASE arch = "aarch64" -> <<JRE_21_MACOS_AARCH64>>
      [] arch = "x86_64" -> <<JRE_21_MACOS_X64>>
      [] OTHER -> <<>>

\* format!("{}/jdtls/milestones", JDT_MILESTONES_URL)
milestones_url == <<JDT_MILESTONES_URL, "/jdtls/milestones">>

\* format!("{}/jdtls/milestones/{}", JDT_MILESTONES_URL, jdtls_version)
version_page_url(v) == <<JDT_MILESTONES_URL, "/jdtls/milestones/", v>>

\* format!("{}{}", JDT_MILESTONES_URL, build)
download_url(build) == <<JDT_MILESTONES_URL>> \o build

\* the file= target of the download link on the detail page of version v
BuildOf(v) == <<"/jdtls/milestones/", v, "/jdt-language-server-", v, ".tar.gz">>

\* a detail page is the sequence of its matching download links: none or one
DetailPages(v) == { <<>>, <<BuildOf(v)>> }

\* entries of the runtime archive, in archive order
RuntimeArchive == <<JAVA_HOME, JAVA_BIN>>

\* entries of a server archive, in archive order: the launcher jar of the
\* release between the configuration directories
ServerArchives ==
    { <<CONFIG_MAC, jar, CONFIG_MAC_ARM>> : jar \in {LAUNCHER_JAR, OTHER_LAUNCHER_JAR} }

----------------------------------------------------------------------------
(* State *)

NoBinary == [path |-> <<>>, arguments |-> <<>>]

\* what a finished call handed to the host, with the requests it made
Outcome(entry, kind, bin, reqs, v, isFresh) ==
    [entry |-> entry, result |-> kind, binary |-> bin, requests |-> reqs,
     version |-> v, fresh |-> isFresh]

\* the record kept of a binary handed to the host
Handed(entry, bin, isFresh) == [entry |-> entry, binary |-> bin, fresh |-> isFresh]

Init ==
    /\ arch \in Archs
    /\ container_dir \in ContainerDirs
    /\ files = {}
    /\ version_txt = <<>>
    /\ pc = [t \in Tasks |-> "idle"]
    /\ jdtls_version = [t \in Tasks |-> <<>>]
    /\ requests = [t \in Tasks |-> <<>>]
    /\ archive = [t \in Tasks |-> <<>>]
    /\ response = [t \in Tasks |-> <<>>]
    /\ fresh = [t \in Tasks |-> FALSE]
    /\ outcome = Outcome("none", "none", NoBinary, <<>>, <<>>, FALSE)
    /\ returned = {}
    /\ last_fetch = "none"

\* the identity of the build and of the container never changes
Fixed == UNCHANGED <<arch, container_dir>>

\* the container directory is left alone
Untouched == UNCHANGED <<files, version_txt>>

\* the locals of a call are dropped when it returns
Drop(t) ==
    /\ pc' = [pc EXCEPT ![t] = "idle"]
    /\ jdtls_version' = [jdtls_version EXCEPT ![t] = <<>>]
    /\ requests' = [requests EXCEPT ![t] = <<>>]
    /\ archive' = [archive EXCEPT ![t] = <<>>]
    /\ response' = [response EXCEPT ![t] = <<>>]
    /\ fresh' = [fresh EXCEPT ![t] = FALSE]

----------------------------------------------------------------------------
(* fetch_latest_server_version *)

\* the call: GET {JDT_MILESTONES_URL}/jdtls/milestones is issued and awaited
FetchLatestServerVersion(t) ==
    /\ pc[t] = "idle"
    /\ pc' = [pc EXCEPT ![t] = "index_wait"]
    /\ requests' = [requests EXCEPT ![t] = <<milestones_url>>]
    /\ Fixed /\ Untouched
    /\ UNCHANGED <<jdtls_version, archive, response, fresh, outcome, returned, last_fetch>>

\* the GET or read_to_string fails: map_err(..)? / .await? return Err
IndexFail(t) ==
    /\ pc[t] = "index_wait"
    /\ outcome' = Outcome("fetch_latest_server_version", "err", NoBinary,
                          requests[t], <<>>, FALSE)
    /\ Drop(t)
    /\ Fixed /\ Untouched
    /\ UNCHANGED <<returned, last_fetch>>

\* read_to_string(&mut response) completes with a body out of B
IndexBody(t, B) ==
    /\ pc[t] = "index_wait"
    /\ \E body \in B : response' = [response EXCEPT ![t] = body]
    /\ pc' = [pc EXCEPT ![t] = "index_body"]
    /\ Fixed /\ Untouched
    /\ UNCHANGED <<jdtls_version, requests, archive, fresh, outcome, returned, last_fetch>>

\* lines 55-67 as they would be if the resolver recorded the version on disk
SelectLatest_Persisting(t) ==
    /\ pc[t] = "index_body"
    /\ IF versions(response[t]) = <<>>
       THEN /\ outcome' = Outcome("fetch_latest_server_version", "panic", NoBinary,
                                  requests[t], <<>>, FALSE)
            /\ Drop(t)
            /\ Untouched
       ELSE LET version == LatestVersion(response[t])
            IN /\ outcome' = Outcome("fetch_latest_server_version", "ok", NoBinary,
                                     requests[t], version, FALSE)
               /\ pc' = [pc EXCEPT ![t] = "resolved"]
               /\ jdtls_version' = [jdtls_version EXCEPT ![t] = version]
               /\ requests' = [requests EXCEPT ![t] = <<>>]
               /\ response' = [response EXCEPT ![t] = <<>>]
               /\ files' = files \cup {VERSION_TXT}
               /\ version_txt' = version
               /\ UNCHANGED <<archive, fresh>>
    /\ Fixed
    /\ UNCHANGED <<returned, last_fetch>>

\* lines 55-67: collect the keys, sort, index the last one, slice, return Ok.
\* versions[versions.len() - 1] on an empty vector panics.
SelectLatest(t) ==
    /\ pc[t] = "index_body"
    /\ IF versions(response[t]) = <<>>
       THEN /\ outcome' = Outcome("fetch_latest_server_version", "panic", NoBinary,
                                  requests[t], <<>>, FALSE)
            /\ Drop(t)
       ELSE LET version == LatestVersion(response[t])
            IN /\ outcome' = Outcome("fetch_latest_server_version", "ok", NoBinary,
                                     requests[t], version, FALSE)
               /\ pc' = [pc EXCEPT ![t] = "resolved"]
               /\ jdtls_version' = [jdtls_version EXCEPT ![t] = version]
               /\ requests' = [requests EXCEPT ![t] = <<>>]
               /\ response' = [response EXCEPT ![t] = <<>>]
               /\ UNCHANGED <<archive, fresh>>
    /\ Fixed /\ Untouched
    /\ UNCHANGED <<returned, last_fetch>>

----------------------------------------------------------------------------
(* fetch_server_binary *)

\* lines 85, 97 as they would be if the launcher jar counted as installed
\* only while version.txt names the version the running call resolved
Exists_VersionAware(rel) ==
    /\ Join(container_dir, rel) \in { Join(container_dir, f) : f \in files }
    /\ rel = LAUNCHER_JAR
       => \E t \in Tasks : pc[t] # "idle" /\ version_txt = jdtls_version[t]

\* Path::exists() of a path joined onto the container directory
Exists(rel) == Join(container_dir, rel) \in { Join(container_dir, f) : f \in files }

\* lines 139-144: Ok(LanguageServerBinary { .. })
ReturnOk(t, reqs, isFresh) ==
    LET bin == LanguageServerBinary(container_dir)
    IN /\ outcome' = Outcome("fetch_server_binary", "ok", bin, reqs,
                             jdtls_version[t], isFresh)
       /\ returned' = returned \cup {Handed("fetch_server_binary", bin, isFresh)}
       /\ last_fetch' = "ok"
       /\ Drop(t)

\* a `?` that returns Err, or an unwrap() that panics
ReturnFailure(t, kind) ==
    /\ outcome' = Outcome("fetch_server_binary", kind, NoBinary, requests[t],
                          jdtls_version[t], fresh[t])
    /\ last_fetch' = kind
    /\ Drop(t)
    /\ UNCHANGED returned

\* the server block as it would be without the marker test of line 97
ServerBlock_NoMarkerCheck(t, reqs, isFresh) ==
    /\ pc' = [pc EXCEPT ![t] = "page_wait"]
    /\ requests' = [requests EXCEPT ![t] = Append(reqs, version_page_url(jdtls_version[t]))]
    /\ fresh' = [fresh EXCEPT ![t] = isFresh]
    /\ UNCHANGED <<jdtls_version, archive, response, outcome, returned, last_fetch>>

\* lines 97-139: the launcher jar exists -> build the binary; otherwise
\* GET the version page and await it.  reqs: the requests of the call so far
ServerBlock(t, reqs, isFresh) ==
    IF Exists(LAUNCHER_JAR)
    THEN ReturnOk(t, reqs, isFresh)
    ELSE /\ pc' = [pc EXCEPT ![t] = "page_wait"]
         /\ requests' = [requests EXCEPT ![t] = Append(reqs, version_page_url(jdtls_version[t]))]
         /\ fresh' = [fresh EXCEPT ![t] = isFresh]
         /\ UNCHANGED <<jdtls_version, archive, response, outcome, returned, last_fetch>>

\* lines 76-95 as they would be if a call left the runtime to a call that is
\* already downloading it
FetchServerBinary_Joined(t) ==
    /\ pc[t] = "resolved"
    /\ IF ~Exists(JAVA_HOME) /\ \A u \in Tasks \ {t} : pc[u] \notin {"jre_wait", "jre_unpack"}
       THEN /\ pc' = [pc EXCEPT ![t] = "jre_wait"]
            /\ requests' = [requests EXCEPT ![t] = <<jre21_url>>]
            /\ fresh' = [fresh EXCEPT ![t] = (files = {})]
            /\ UNCHANGED <<jdtls_version, archive, response, outcome, returned, last_fetch>>
       ELSE ServerBlock(t, <<>>, files = {})
    /\ Fixed /\ Untouched

\* lines 76-95: the call.  JAVA_HOME missing -> GET jre21_url and await it;
\* otherwise straight on to the server block
FetchServerBinary(t) ==
    /\ pc[t] = "resolved"
    /\ IF ~Exists(JAVA_HOME)
       THEN /\ pc' = [pc EXCEPT ![t] = "jre_wait"]
            /\ requests' = [requests EXCEPT ![t] = <<jre21_url>>]
            /\ fresh' = [fresh EXCEPT ![t] = (files = {})]
            /\ UNCHANGED <<jdtls_version, archive, response, outcome, returned, last_fetch>>
       ELSE ServerBlock(t, <<>>, files = {})
    /\ Fixed /\ Untouched

\* line 91 as it would be if the error were dropped instead of returned
JreFail_Ignored(t) ==
    /\ pc[t] = "jre_wait"
    /\ pc' = [pc EXCEPT ![t] = "page_wait"]
    /\ requests' = [requests EXCEPT ![t] = Append(@, version_page_url(jdtls_version[t]))]
    /\ Fixed /\ Untouched
    /\ UNCHANGED <<jdtls_version, archive, response, fresh, outcome, returned, last_fetch>>

\* line 91: the GET fails (a GET of the empty URL can only fail)
JreFail(t) ==
    /\ pc[t] = "jre_wait"
    /\ ReturnFailure(t, "err")
    /\ Fixed /\ Untouched

\* lines 92-94: the response arrives and unpacking starts
JreRespond(t) ==
    /\ pc[t] = "jre_wait"
    /\ requests[t][Len(requests[t])] # <<>>
    /\ pc' = [pc EXCEPT ![t] = "jre_unpack"]
    /\ archive' = [archive EXCEPT ![t] = RuntimeArchive]
    /\ Fixed /\ Untouched
    /\ UNCHANGED <<jdtls_version, requests, response, fresh, outcome, returned, last_fetch>>

\* archive.unpack(container_dir): the next entry is written
UnpackEntry(t) ==
    /\ pc[t] \in {"jre_unpack", "jdt_unpack"}
    /\ archive[t] # <<>>
    /\ files' = files \cup {Head(archive[t])}
    /\ archive' = [archive EXCEPT ![t] = Tail(archive[t])]
    /\ Fixed
    /\ UNCHANGED <<version_txt, pc, jdtls_version, requests, response, fresh,
                   outcome, returned, last_fetch>>

\* lines 94, 133 as they would be if a failed unpack removed what it wrote
UnpackFail_Cleanup(t) ==
    /\ pc[t] \in {"jre_unpack", "jdt_unpack"}
    /\ ReturnFailure(t, "err")
    /\ files' = IF pc[t] = "jre_unpack"
                THEN files \ {JAVA_HOME, JAVA_BIN}
                ELSE files \ {CONFIG_MAC, CONFIG_MAC_ARM, LAUNCHER_JAR, OTHER_LAUNCHER_JAR}
    /\ Fixed
    /\ UNCHANGED version_txt

\* lines 94, 133: .await? -- decompression or extraction fails at any point,
\* what was written stays
UnpackFail(t) ==
    /\ pc[t] \in {"jre_unpack", "jdt_unpack"}
    /\ ReturnFailure(t, "err")
    /\ Fixed /\ Untouched

\* line 97 as it would be if a call that installed the runtime always went on
\* to install the server
JreUnpacked_ThenServer(t) ==
    /\ pc[t] = "jre_unpack"
    /\ archive[t] = <<>>
    /\ pc' = [pc EXCEPT ![t] = "page_wait"]
    /\ requests' = [requests EXCEPT ![t] = Append(@, version_page_url(jdtls_version[t]))]
    /\ UNCHANGED <<jdtls_version, archive, response, fresh, outcome, returned, last_fetch>>
    /\ Fixed /\ Untouched

\* line 94 done: the runtime block is passed, on to the server block
JreUnpacked(t) ==
    /\ pc[t] = "jre_unpack"
    /\ archive[t] = <<>>
    /\ ServerBlock(t, requests[t], fresh[t])
    /\ Fixed /\ Untouched

\* lines 109-112 as they would be if a failed GET of the version page made
\* the call fall back to the binary
PageFail_Fallback(t) ==
    /\ pc[t] = "page_wait"
    /\ ReturnOk(t, requests[t], fresh[t])
    /\ Fixed /\ Untouched

\* lines 109-112: the GET of the version page or the read fails
PageFail(t) ==
    /\ pc[t] = "page_wait"
    /\ ReturnFailure(t, "err")
    /\ Fixed /\ Untouched

\* line 111: the body of the version page is read
PageBody(t) ==
    /\ pc[t] = "page_wait"
    /\ \E page \in DetailPages(jdtls_version[t]) :
          response' = [response EXCEPT ![t] = page]
    /\ pc' = [pc EXCEPT ![t] = "page_body"]
    /\ Fixed /\ Untouched
    /\ UNCHANGED <<jdtls_version, requests, archive, fresh, outcome, returned, last_fetch>>

\* lines 113-130: captures(&response).unwrap() panics without a match;
\* with one, GET download_url is issued and awaited
PageParse(t) ==
    /\ pc[t] = "page_body"
    /\ IF response[t] = <<>>
       THEN ReturnFailure(t, "panic")
       ELSE /\ pc' = [pc EXCEPT ![t] = "jdt_wait"]
            /\ requests' = [requests EXCEPT ![t] = Append(@, download_url(response[t][1]))]
            /\ response' = [response EXCEPT ![t] = <<>>]
            /\ UNCHANGED <<jdtls_version, archive, fresh, outcome, returned, last_fetch>>
    /\ Fixed /\ Untouched

\* line 130 as it would be with a retry of the failed GET
JdtFail_Retried(t) ==
    /\ pc[t] = "jdt_wait"
    /\ Len(requests[t]) < 4
    /\ requests' = [requests EXCEPT ![t] = Append(@, @[Len(@)])]
    /\ Fixed /\ Untouched
    /\ UNCHANGED <<pc, jdtls_version, archive, response, fresh, outcome, returned, last_fetch>>

\* line 130: the GET of the server archive fails
JdtFail(t) ==
    /\ pc[t] = "jdt_wait"
    /\ ReturnFailure(t, "err")
    /\ Fixed /\ Untouched

\* lines 131-133: the response arrives and unpacking starts
JdtRespond(t) ==
    /\ pc[t] = "jdt_wait"
    /\ \E a \in ServerArchives : archive' = [archive EXCEPT ![t] = a]
    /\ pc' = [pc EXCEPT ![t] = "jdt_unpack"]
    /\ Fixed /\ Untouched
    /\ UNCHANGED <<jdtls_version, requests, response, fresh, outcome, returned, last_fetch>>

\* lines 133-144 as they would be without the write of line 136
WriteVersion_Skipped(t) ==
    /\ pc[t] = "jdt_unpack"
    /\ archive[t] = <<>>
    /\ ReturnOk(t, requests[t], fresh[t])
    /\ Fixed /\ Untouched

\* lines 133-144: unpacked; std::fs::write(version.txt, jdtls_version) succeeds
\* and the binary is returned
WriteVersion(t) ==
    /\ pc[t] = "jdt_unpack"
    /\ archive[t] = <<>>
    /\ files' = files \cup {VERSION_TXT}
    /\ version_txt' = jdtls_version[t]
    /\ ReturnOk(t, requests[t], fresh[t])
    /\ Fixed

\* line 136: std::fs::write fails, before or after it created/truncated the file
WriteVersionFail(t) ==
    /\ pc[t] = "jdt_unpack"
    /\ archive[t] = <<>>
    /\ \/ Untouched
       \/ /\ files' = files \cup {VERSION_TXT}
          /\ version_txt' = <<>>
    /\ ReturnFailure(t, "err")
    /\ Fixed

----------------------------------------------------------------------------
(* cached_server_binary, installation_test_binary *)

\* lines 147-171 as they would be if they looked for the launcher jar first
SomeBinary_Checked(t, entry) ==
    LET bin == LanguageServerBinary(container_dir)
    IN /\ pc[t] = "idle"
       /\ IF Exists(LAUNCHER_JAR)
          THEN /\ outcome' = Outcome(entry, "some", bin, <<>>, <<>>, FALSE)
               /\ returned' = returned \cup {Handed(entry, bin, FALSE)}
          ELSE /\ outcome' = Outcome(entry, "none", NoBinary, <<>>, <<>>, FALSE)
               /\ UNCHANGED returned
       /\ Fixed /\ Untouched
       /\ UNCHANGED <<pc, jdtls_version, requests, archive, response, fresh, last_fetch>>

\* Some(LanguageServerBinary { .. }), whatever the container holds
SomeBinary(t, entry) ==
    LET bin == LanguageServerBinary(container_dir)
    IN /\ pc[t] = "idle"
       /\ outcome' = Outcome(entry, "some", bin, <<>>, <<>>, FALSE)
       /\ returned' = returned \cup {Handed(entry, bin, FALSE)}
       /\ Fixed /\ Untouched
       /\ UNCHANGED <<pc, jdtls_version, requests, archive, response, fresh, last_fetch>>

\* lines 147-159
CachedServerBinary(t) == SomeBinary(t, "cached_server_binary")

\* lines 161-171
InstallationTestBinary(t) == SomeBinary(t, "installation_test_binary")

----------------------------------------------------------------------------
(* Specifications *)

\* one installation attempt at a time on the container (section 5)
Exclusive(t) == \A u \in Tasks \ {t} : pc[u] = "idle"

Next ==
    \/ \E t \in Tasks : Exclusive(t) /\ FetchLatestServerVersion(t)
    \/ \E t \in Tasks : Exclusive(t) /\ IndexFail(t)
    \/ \E t \in Tasks : Exclusive(t) /\ IndexBody(t, MainBodies)
    \/ \E t \in Tasks : Exclusive(t) /\ SelectLatest(t)
    \/ \E t \in Tasks : Exclusive(t) /\ FetchServerBinary(t)
    \/ \E t \in Tasks : Exclusive(t) /\ JreFail(t)
    \/ \E t \in Tasks : Exclusive(t) /\ JreRespond(t)
    \/ \E t \in Tasks : Exclusive(t) /\ UnpackEntry(t)
    \/ \E t \in Tasks : Exclusive(t) /\ UnpackFail(t)
    \/ \E t \in Tasks : Exclusive(t) /\ JreUnpacked(t)
    \/ \E t \in Tasks : Exclusive(t) /\ PageFail(t)
    \/ \E t \in Tasks : Exclusive(t) /\ PageBody(t)
    \/ \E t \in Tasks : Exclusive(t) /\ PageParse(t)
    \/ \E t \in Tasks : Exclusive(t) /\ JdtFail(t)
    \/ \E t \in Tasks : Exclusive(t) /\ JdtRespond(t)
    \/ \E t \in Tasks : Exclusive(t) /\ WriteVersion(t)
    \/ \E t \in Tasks : Exclusive(t) /\ WriteVersionFail(t)
    \/ \E t \in Tasks : Exclusive(t) /\ CachedServerBinary(t)
    \/ \E t \in Tasks : Exclusive(t) /\ InstallationTestBinary(t)

Spec == Init /\ [][Next]_vars

\* the host drops a resolved version without installing it
Discard(t) ==
    /\ pc[t] = "resolved"
    /\ Drop(t)
    /\ Fixed /\ Untouched
    /\ UNCHANGED <<outcome, returned, last_fetch>>

\* the resolver on its own, over index pages with components of 1..4 digits
NextResolve ==
    \/ \E t \in Tasks : Exclusive(t) /\ FetchLatestServerVersion(t)
    \/ \E t \in Tasks : Exclusive(t) /\ IndexFail(t)
    \/ \E t \in Tasks : Exclusive(t) /\ IndexBody(t, Bodies)
    \/ \E t \in Tasks : Exclusive(t) /\ SelectLatest(t)
    \/ \E t \in Tasks : Exclusive(t) /\ Discard(t)

SpecResolve == Init /\ [][NextResolve]_vars

\* callers that are not coordinated: the calls of the tasks interleave at
\* their await points
NextConcurrent ==
    \/ \E t \in Tasks : FetchLatestServerVersion(t)
    \/ \E t \in Tasks : IndexFail(t)
    \/ \E t \in Tasks : IndexBody(t, MainBodies)
    \/ \E t \in Tasks : SelectLatest(t)
    \/ \E t \in Tasks : FetchServerBinary(t)
    \/ \E t \in Tasks : JreFail(t)
    \/ \E t \in Tasks : JreRespond(t)
    \/ \E t \in Tasks : UnpackEntry(t)
    \/ \E t \in Tasks : UnpackFail(t)
    \/ \E t \in Tasks : JreUnpacked(t)
    \/ \E t \in Tasks : PageFail(t)
    \/ \E t \in Tasks : PageBody(t)
    \/ \E t \in Tasks : PageParse(t)
    \/ \E t \in Tasks : JdtFail(t)
    \/ \E t \in Tasks : JdtRespond(t)
    \/ \E t \in Tasks : WriteVersion(t)
    \/ \E t \in Tasks : WriteVersionFail(t)

\* the concurrent callers share one container directory
InitConcurrent == Init /\ container_dir = <<"/zed/languages/java">>

SpecConcurrent == InitConcurrent /\ [][NextConcurrent]_vars

\* a container that holds the server of release 1.9.0 and no runtime
ServerInstalled == {CONFIG_MAC, LAUNCHER_JAR, CONFIG_MAC_ARM, VERSION_TXT}

\* the containers a first call can find: empty, or the server without the
\* runtime
PresetContainers == { {}, ServerInstalled }

\* the calls start on a container directory that already has contents
InitPreset ==
    /\ arch \in Archs
    /\ container_dir = <<"/zed/languages/java">>
    /\ files \in PresetContainers
    /\ version_txt = IF VERSION_TXT \in files
                     THEN Dotted(<<Digits(1), Digits(9), Digits(0)>>)
                     ELSE <<>>
    /\ pc = [t \in Tasks |-> "idle"]
    /\ jdtls_version = [t \in Tasks |-> <<>>]
    /\ requests = [t \in Tasks |-> <<>>]
    /\ archive = [t \in Tasks |-> <<>>]
    /\ response = [t \in Tasks |-> <<>>]
    /\ fresh = [t \in Tasks |-> FALSE]
    /\ outcome = Outcome("none", "none", NoBinary, <<>>, <<>>, FALSE)
    /\ returned = {}
    /\ last_fetch = "none"

SpecPreset == InitPreset /\ [][Next]_vars

----------------------------------------------------------------------------
(* The version resolver: claims C1, C2 *)

\* numeric (major, minor, patch) ordering: a <= b
TripleLeq(a, b) ==
    \/ Value(a[1]) < Value(b[1])
    \/ Value(a[1]) = Value(b[1]) /\ Value(a[2]) < Value(b[2])
    \/ Value(a[1]) = Value(b[1]) /\ Value(a[2]) = Value(b[2]) /\ Value(a[3]) <= Value(b[3])

\* link is a maximum release of the page body
IsMaximum(link, body) == \A i \in 1..Len(body) : TripleLeq(body[i], link)

\* the step in which task t leaves the await point p
Leaves(t, p) == pc[t] = p /\ pc'[t] # p

\* C1: for every index body with at least one link, in any order,
\* fetch_latest_server_version returns the dotted form of a maximum release
\* under numeric (major, minor, patch) ordering.
C1_MaximumRelease ==
    [][\A t \in Tasks :
         (Leaves(t, "index_body") /\ response[t] # <<>>)
         => /\ outcome'.result = "ok"
            /\ \E i \in 1..Len(response[t]) :
                  /\ IsMaximum(response[t][i], response[t])
                  /\ outcome'.version = Dotted(response[t][i])]_vars

\* C2: on an index body without a matching link fetch_latest_server_version
\* returns an error value: no version, no panic.
C2_EmptyIndexIsError ==
    [][\A t \in Tasks :
         (Leaves(t, "index_body") /\ response[t] = <<>>)
         => /\ outcome'.result = "err"
            /\ outcome'.version = <<>>
            /\ pc'[t] = "idle"]_vars

----------------------------------------------------------------------------
(* The installer: claims C3 .. C8 *)

RuntimeSteps == {"jre_wait", "jre_unpack"}
ServerSteps == {"page_wait", "page_body", "jdt_wait", "jdt_unpack"}

\* C3: with the runtime marker and the server marker both in the container,
\* fetch_server_binary returns at once: no HTTP request, nothing written, and
\* the binary equals the one every fresh install on this container returned.
C3_PopulatedNoNetwork ==
    [][\A t \in Tasks :
         (Leaves(t, "resolved") /\ JAVA_HOME \in files /\ LAUNCHER_JAR \in files)
         => /\ pc'[t] = "idle"
            /\ outcome'.entry = "fetch_server_binary"
            /\ outcome'.result = "ok"
            /\ outcome'.requests = <<>>
            /\ files' = files
            /\ version_txt' = version_txt
            /\ \A r \in returned : r.fresh => r.binary = outcome'.binary]_vars

\* a call on a populated container has returned, after a fresh install did
C3_Witness ==
    /\ outcome.entry = "fetch_server_binary"
    /\ outcome.result = "ok"
    /\ outcome.requests = <<>>
    /\ ~outcome.fresh
    /\ JAVA_HOME \in files /\ LAUNCHER_JAR \in files
    /\ \E r \in returned : r.fresh /\ r.binary = outcome.binary

\* C4: a fetch_server_binary call that follows a successful one performs no
\* download: it returns Ok without any HTTP request.
C4_Idempotent ==
    [][\A t \in Tasks :
         (Leaves(t, "resolved") /\ last_fetch = "ok")
         => /\ pc'[t] = "idle"
            /\ outcome'.result = "ok"
            /\ outcome'.requests = <<>>]_vars

\* C5: on an architecture other than aarch64 and x86_64 no request goes to
\* an empty URL and no binary with an empty configuration path is handed out.
C5_UnsupportedPlatformError ==
    arch \notin SupportedArchs
    => /\ \A t \in Tasks : \A i \in 1..Len(requests[t]) : requests[t][i] # <<>>
       /\ \A r \in returned : r.binary.arguments[14] # <<>>

\* C6: a version page without a download link makes fetch_server_binary
\* return an error value: no panic, no server-archive request, no write.
C6_MissingLinkIsError ==
    [][\A t \in Tasks :
         (Leaves(t, "page_body") /\ response[t] = <<>>)
         => /\ outcome'.result = "err"
            /\ outcome'.binary = NoBinary
            /\ outcome'.requests = requests[t]
            /\ files' = files
            /\ version_txt' = version_txt]_vars

\* C7: a task is at a server installation step only with the runtime marker
\* in the container; it gets there from the runtime steps only when the
\* runtime archive is unpacked to its end; and a call that fails in a runtime
\* step has requested the runtime URL alone and written no version.txt.
C7_RuntimeBeforeServer ==
    /\ [](\A t \in Tasks : pc[t] \in ServerSteps => JAVA_HOME \in files)
    /\ [][\A t \in Tasks :
            /\ (pc[t] \in RuntimeSteps /\ pc'[t] \in ServerSteps)
               => (pc[t] = "jre_unpack" /\ archive[t] = <<>>
                   /\ \A i \in 1..Len(RuntimeArchive) : RuntimeArchive[i] \in files)
            /\ (pc[t] \in RuntimeSteps /\ pc'[t] = "idle" /\ outcome'.result # "ok")
               => (outcome'.result = "err" /\ outcome'.requests = <<jre21_url>>
                   /\ version_txt' = version_txt
                   /\ (VERSION_TXT \in files') = (VERSION_TXT \in files))]_vars

\* a task reached the server steps after downloading the runtime itself
C7_Witness ==
    \E t \in Tasks :
        /\ pc[t] \in ServerSteps
        /\ Len(requests[t]) >= 2
        /\ requests[t][1] = jre21_url
        /\ JAVA_HOME \in files

\* C8: after a successful fetch_server_binary(v) that began on an empty
\* container version.txt holds exactly v; and version.txt is written only by
\* a task whose server archive is unpacked to its end.
C8_VersionMarker ==
    /\ []((outcome.entry = "fetch_server_binary" /\ outcome.result = "ok" /\ outcome.fresh)
          => (VERSION_TXT \in files /\ version_txt = outcome.version))
    /\ [][(version_txt' # version_txt \/ (VERSION_TXT \in files') # (VERSION_TXT \in files))
          => \E t \in Tasks :
                /\ pc[t] = "jdt_unpack" /\ archive[t] = <<>>
                /\ pc'[t] = "idle"]_vars

\* a fresh install of version 1.29.0 has returned
C8_Witness ==
    /\ outcome.entry = "fetch_server_binary"
    /\ outcome.result = "ok"
    /\ outcome.fresh
    /\ outcome.version = Dotted(<<Digits(1), Digits(29), Digits(0)>>)
    /\ version_txt = outcome.version

----------------------------------------------------------------------------
(* The launch command: claims C9, C10 *)

\* C9: every binary handed out has the path <container>/<JAVA_HOME>/bin/java
\* and the arguments "-jar", the launcher jar inside the container, the fixed
\* flags, "-configuration", a configuration directory inside the container,
\* "-data", ".", in this order.
C9_LaunchSpecShape ==
    \A r \in returned :
        /\ r.binary.path = container_dir \o <<"/", JAVA_HOME \o "/bin/java">>
        /\ Len(r.binary.arguments) = 16
        /\ r.binary.arguments[1] = <<"-jar">>
        /\ r.binary.arguments[2] = container_dir \o <<"/", LAUNCHER_JAR>>
        /\ SubSeq(r.binary.arguments, 3, 12) = FixedFlags
        /\ r.binary.arguments[13] = <<"-configuration">>
        /\ r.binary.arguments[14] \in { container_dir \o <<"/", CONFIG_MAC>>,
                                       container_dir \o <<"/", CONFIG_MAC_ARM>> }
        /\ r.binary.arguments[15] = <<"-data">>
        /\ r.binary.arguments[16] = <<".">>

\* C10: all binaries handed out for the container and the architecture are
\* equal, whichever entry point built them, whatever the container held and
\* whatever version was resolved.
C10_Deterministic ==
    \A r1 \in returned : \A r2 \in returned : r1.binary = r2.binary

\* all three entry points have handed out a binary; fetch_server_binary did
\* so from an empty and from a non-empty container, and last for a version
\* other than the installed one, with a launcher jar of another build around
C10_Witness ==
    /\ \E r \in returned : r.entry = "cached_server_binary"
    /\ \E r \in returned : r.entry = "installation_test_binary"
    /\ \E r \in returned : r.entry = "fetch_server_binary" /\ r.fresh
    /\ \E r \in returned : r.entry = "fetch_server_binary" /\ ~r.fresh
    /\ outcome.entry = "fetch_server_binary" /\ outcome.result = "ok"
    /\ outcome.requests = <<>>
    /\ version_txt # <<>> /\ version_txt # outcome.version
    /\ OTHER_LAUNCHER_JAR \in files

----------------------------------------------------------------------------
(* Failures: claims C11, C12 *)

\* no element of the sequence s occurs twice
NoRepeat(s) == \A i \in 1..Len(s) : \A j \in 1..Len(s) : s[i] = s[j] => i = j

\* the await points of a call
Awaiting == {"index_wait", "index_body"} \cup RuntimeSteps \cup ServerSteps

\* C11: a call that ends with an error ends there: the task is back at the
\* host with its locals dropped, the error carries no binary, no binary is
\* handed out in that step, and the requests are those made up to the
\* failure; and no call requests a URL twice.
C11_FailureIsFinal ==
    /\ [](/\ \A t \in Tasks : NoRepeat(requests[t])
          /\ NoRepeat(outcome.requests)
          /\ outcome.result \in {"err", "panic"} => outcome.binary = NoBinary)
    /\ [][\A t \in Tasks :
            (pc[t] \in Awaiting /\ pc'[t] = "idle" /\ outcome'.result = "err")
            => /\ outcome'.requests = requests[t]
               /\ returned' = returned
               /\ requests'[t] = <<>> /\ archive'[t] = <<>> /\ response'[t] = <<>>
               /\ jdtls_version'[t] = <<>>]_vars

\* a call failed at its third request, having unpacked part of the server
C11_Witness ==
    /\ outcome.entry = "fetch_server_binary"
    /\ outcome.result = "err"
    /\ Len(outcome.requests) = 3
    /\ CONFIG_MAC \in files /\ CONFIG_MAC_ARM \notin files

\* C12: nothing is ever removed from the container, a failed unpack leaves
\* it as it is, and a call that finds a marker takes the artifact for
\* installed, complete or not: with JAVA_HOME there the runtime URL is not
\* requested, with the launcher jar there too the binary is returned at once.
C12_NoCleanup ==
    /\ [][files \subseteq files']_vars
    /\ [][\A t \in Tasks :
            /\ (pc[t] \in {"jre_unpack", "jdt_unpack"} /\ pc'[t] = "idle"
                /\ outcome'.result = "err" /\ archive[t] # <<>>)
               => files' = files
            /\ (Leaves(t, "resolved") /\ JAVA_HOME \in files)
               => /\ pc'[t] \in {"idle", "page_wait"}
                  /\ \A i \in 1..Len(requests'[t]) : requests'[t][i] # jre21_url
            /\ (Leaves(t, "resolved") /\ JAVA_HOME \in files /\ LAUNCHER_JAR \in files)
               => /\ outcome'.result = "ok"
                  /\ outcome'.requests = <<>>
                  /\ outcome'.binary.path = container_dir \o <<"/", JAVA_BIN>>
                  /\ outcome'.binary.arguments[2] = container_dir \o <<"/", LAUNCHER_JAR>>]_vars

\* a binary was returned without any request for a runtime without bin/java
\* and a server without its second configuration directory
C12_Witness ==
    /\ outcome.entry = "fetch_server_binary"
    /\ outcome.result = "ok"
    /\ outcome.requests = <<>>
    /\ JAVA_HOME \in files /\ JAVA_BIN \notin files
    /\ LAUNCHER_JAR \in files /\ CONFIG_MAC_ARM \notin files


----------------------------------------------------------------------------
(* Concurrent callers: claim C13 *)

\* C13: nothing but the marker test decides whether a call downloads: a call
\* that finds JAVA_HOME missing requests the runtime although another call
\* is requesting or unpacking it, and a call that finds the launcher jar
\* missing requests the version page although another call is installing
\* the server.
C13_Uncoordinated ==
    [][\A t \in Tasks :
         /\ (Leaves(t, "resolved") /\ JAVA_HOME \notin files
             /\ \E u \in Tasks \ {t} : pc[u] \in RuntimeSteps)
            => (pc'[t] = "jre_wait" /\ requests'[t] = <<jre21_url>>)
         /\ (Leaves(t, "resolved") /\ JAVA_HOME \in files /\ LAUNCHER_JAR \notin files
             /\ \E u \in Tasks \ {t} : pc[u] \in ServerSteps)
            => (pc'[t] = "page_wait"
                /\ requests'[t] = <<version_page_url(jdtls_version[t])>>)]_vars

\* both calls requested the runtime and each has unpacked its first entry:
\* the second write of JAVA_HOME fell between the writes of the other call
C13_Witness ==
    /\ \A t \in Tasks :
          /\ pc[t] = "jre_unpack"
          /\ requests[t] = <<jre21_url>>
          /\ archive[t] = <<JAVA_BIN>>
    /\ files = {JAVA_HOME}


----------------------------------------------------------------------------
(* What touches the container: claim C14 *)

\* the step in which task t unpacks the next entry of its archive
Unpacks(t) ==
    /\ pc[t] \in {"jre_unpack", "jdt_unpack"}
    /\ pc'[t] = pc[t]
    /\ archive[t] # <<>>
    /\ archive'[t] = Tail(archive[t])

\* the step in which task t writes version.txt and returns
WritesVersion(t) ==
    /\ pc[t] = "jdt_unpack" /\ archive[t] = <<>>
    /\ pc'[t] = "idle" /\ outcome'.result = "ok"

\* only a task that is unpacking changes the container, and nothing is removed
OnlyInstallMutates ==
    /\ (files' # files \/ version_txt' # version_txt)
       => \E t \in Tasks : pc[t] \in {"jre_unpack", "jdt_unpack"}
    /\ files \subseteq files'

\* C14 as stated: the container changes only in the unpack steps and the
\* version.txt write, nothing is removed, and no step writes a file that is
\* already there (version.txt included).
C14_AppendOnly ==
    [][/\ OnlyInstallMutates
       /\ \A t \in Tasks :
             /\ Unpacks(t) => Head(archive[t]) \notin files
             /\ WritesVersion(t) => VERSION_TXT \notin files]_vars

\* C14 as amended: the container changes only in the unpack steps and the
\* version.txt write, and nothing is removed; files that are already there
\* are written again only by a call that unpacks the server, and the marker
\* paths (JAVA_HOME, the launcher jar) and bin/java never are.
C14_NoRemovalMarkersKept ==
    [][/\ OnlyInstallMutates
       /\ \A t \in Tasks :
             (Unpacks(t) /\ Head(archive[t]) \in files)
             => /\ pc[t] = "jdt_unpack"
                /\ Head(archive[t]) \notin {JAVA_HOME, JAVA_BIN, LAUNCHER_JAR}]_vars

\* a call that did not download the runtime is unpacking the server over an
\* installation whose version.txt names another version
C14_Witness ==
    \E t \in Tasks :
        /\ pc[t] = "jdt_unpack"
        /\ Len(requests[t]) = 2
        /\ Len(archive[t]) = 2
        /\ CONFIG_MAC \in files /\ CONFIG_MAC_ARM \in files
        /\ version_txt # <<>> /\ version_txt # jdtls_version[t]


----------------------------------------------------------------------------
(* The two artifact checks: claim C15 *)

\* C15: the two checks are independent.  A call that finds the runtime
\* marker and not the server marker requests the version page first, never
\* the runtime URL, and the only request it adds is the server archive; a
\* call that finds the server marker and not the runtime marker requests the
\* runtime URL and nothing else, never enters the server block and leaves
\* version.txt as it was.
C15_IndependentChecks ==
    [][\A t \in Tasks :
         /\ (Leaves(t, "resolved") /\ JAVA_HOME \in files /\ LAUNCHER_JAR \notin files)
            => /\ pc'[t] = "page_wait"
               /\ requests'[t] = <<version_page_url(jdtls_version[t])>>
         /\ (pc[t] \in ServerSteps /\ pc'[t] \in ServerSteps /\ requests'[t] # requests[t])
            => /\ pc[t] = "page_body" /\ pc'[t] = "jdt_wait"
               /\ requests'[t] = Append(requests[t], download_url(BuildOf(jdtls_version[t])))
         /\ (pc[t] \in ServerSteps /\ pc'[t] = "idle")
            => outcome'.requests = requests[t]
         /\ (Leaves(t, "resolved") /\ JAVA_HOME \notin files /\ LAUNCHER_JAR \in files)
            => /\ pc'[t] = "jre_wait"
               /\ requests'[t] = <<jre21_url>>
         /\ (pc[t] \in RuntimeSteps /\ LAUNCHER_JAR \in files)
            => /\ pc'[t] \in RuntimeSteps \cup {"idle"}
               /\ requests'[t] \in {requests[t], <<>>}
               /\ pc'[t] = "idle" => outcome'.requests = <<jre21_url>>
               /\ version_txt' = version_txt]_vars

\* the runtime alone has been installed next to a server that was there
C15_Witness ==
    /\ outcome.entry = "fetch_server_binary"
    /\ outcome.result = "ok"
    /\ outcome.requests = <<jre21_url>>
    /\ files = ServerInstalled \cup {JAVA_HOME, JAVA_BIN}
    /\ version_txt # outcome.version


----------------------------------------------------------------------------
(* The returned version string: claim C16 *)

\* C16: for an index body with a matching link the string that
\* fetch_latest_server_version returns is the dotted form of one of the
\* links of the body, nothing more and nothing less, whatever the number of
\* digits of the components.
C16_DottedFormOfALink ==
    [][\A t \in Tasks :
         (pc[t] = "index_body" /\ response[t] # <<>> /\ outcome' # outcome)
         => /\ outcome'.entry = "fetch_latest_server_version"
            /\ outcome'.version \in { Dotted(response[t][i]) : i \in 1..Len(response[t]) }]_vars

----------------------------------------------------------------------------
(* The configuration directory: claim C17 *)

\* C17: the directory after "-configuration" is the one named for the
\* architecture: config_mac_arm on aarch64, config_mac on x86_64.
C17_ConfigMatchesArch ==
    \A r \in returned :
        /\ arch = "aarch64"
           => r.binary.arguments[14] = container_dir \o <<"/", CONFIG_MAC_ARM>>
        /\ arch = "x86_64"
           => r.binary.arguments[14] = container_dir \o <<"/", CONFIG_MAC>>


----------------------------------------------------------------------------
(* Both gates before a binary: claim C18 *)

\* the runtime gate of the attempt of task t has passed: the marker was
\* there when tested (no runtime request), or the runtime was requested and
\* its archive is unpacked
RuntimeGate(t, reqs) ==
    /\ JAVA_HOME \in files
    /\ \/ \A i \in 1..Len(reqs) : reqs[i] # jre21_url
       \/ /\ reqs[1] = jre21_url
          /\ JAVA_BIN \in files

\* C18: fetch_server_binary returns a binary only after both gates have
\* passed in that attempt: the runtime marker was there when tested or the
\* runtime was downloaded and unpacked, and the server marker was there when
\* tested or the server was downloaded, unpacked and version.txt written.
C18_BothGates ==
    [][\A t \in Tasks :
         (pc[t] # "idle" /\ pc'[t] = "idle"
            /\ outcome'.entry = "fetch_server_binary" /\ outcome'.result = "ok")
         => /\ outcome'.requests = requests[t]
            /\ \E r \in returned' : r.binary = outcome'.binary
            /\ RuntimeGate(t, requests[t])
            /\ \/ /\ pc[t] \in {"resolved", "jre_unpack"}
                  /\ archive[t] = <<>>
                  /\ LAUNCHER_JAR \in files
                  /\ Len(requests[t]) <= 1
                  /\ files' = files /\ version_txt' = version_txt
               \/ /\ pc[t] = "jdt_unpack"
                  /\ archive[t] = <<>>
                  /\ requests[t][Len(requests[t]) - 1] = version_page_url(jdtls_version[t])
                  /\ requests[t][Len(requests[t])]
                        = download_url(BuildOf(jdtls_version[t]))
                  /\ {CONFIG_MAC, CONFIG_MAC_ARM} \subseteq files
                  /\ VERSION_TXT \in files'
                  /\ version_txt' = jdtls_version[t]]_vars

\* a call has downloaded both artifacts and returned the binary
C18_Witness ==
    /\ outcome.entry = "fetch_server_binary"
    /\ outcome.result = "ok"
    /\ Len(outcome.requests) = 3
    /\ outcome.requests[1] = jre21_url
    /\ {JAVA_HOME, JAVA_BIN, CONFIG_MAC, CONFIG_MAC_ARM, VERSION_TXT} \subseteq files
    /\ version_txt = outcome.version


----------------------------------------------------------------------------
(* An installed server stays as it is: claim C19 *)

\* the paths the server block writes
ServerFiles == {CONFIG_MAC, LAUNCHER_JAR, OTHER_LAUNCHER_JAR, CONFIG_MAC_ARM, VERSION_TXT}

\* C19: once the launcher jar is in the container and the call that put it
\* there is over, no call enters the server block, requests the version page
\* or a server archive, or changes the server's files or version.txt,
\* whatever version it resolved; a call on such a container returns the
\* binary and leaves version.txt as it was.
C19_InstalledServerFixed ==
    [][(LAUNCHER_JAR \in files /\ \A u \in Tasks : pc[u] \notin ServerSteps)
       => /\ \A u \in Tasks :
                /\ pc'[u] \notin ServerSteps
                /\ \A i \in 1..Len(requests'[u]) :
                      requests'[u][i] \in {milestones_url, jre21_url}
          /\ version_txt' = version_txt
          /\ files' \cap ServerFiles = files \cap ServerFiles
          /\ \A t \in Tasks :
                (Leaves(t, "resolved") /\ JAVA_HOME \in files)
                => /\ outcome'.result = "ok"
                   /\ outcome'.version = jdtls_version[t]
                   /\ outcome'.requests = <<>>]_vars

\* release 1.9.0 is installed, a later call resolved 1.29.0 and returned the
\* binary without a request
C19_Witness ==
    /\ outcome.entry = "fetch_server_binary"
    /\ outcome.result = "ok"
    /\ outcome.requests = <<>>
    /\ LAUNCHER_JAR \in files
    /\ version_txt = Dotted(<<Digits(1), Digits(9), Digits(0)>>)
    /\ outcome.version = Dotted(<<Digits(1), Digits(29), Digits(0)>>)


----------------------------------------------------------------------------
(* The entry points without a marker test: claim C20 *)

\* the two entry points that build the binary without looking at the container
Unchecked == {"cached_server_binary", "installation_test_binary"}

\* C20: cached_server_binary and installation_test_binary return Some binary
\* in every container state, the empty one included: the outcome is never
\* absence, no request is issued, and the step changes neither the container
\* nor any call in progress.
C20_AlwaysSome ==
    /\ [](outcome.entry \in Unchecked
          => /\ outcome.result = "some"
             /\ outcome.binary = LanguageServerBinary(container_dir)
             /\ outcome.binary # NoBinary
             /\ outcome.requests = <<>>
             /\ \E r \in returned : r.entry = outcome.entry /\ r.binary = outcome.binary)
    /\ [][(outcome' # outcome /\ outcome'.entry \in Unchecked)
          => /\ files' = files /\ version_txt' = version_txt
             /\ requests' = requests
             /\ pc' = pc]_vars

\* both have returned a binary on a container in which nothing is installed
C20_Witness ==
    /\ files = {}
    /\ outcome.entry = "installation_test_binary"
    /\ outcome.result = "some"
    /\ \E r \in returned : r.entry = "cached_server_binary"
    /\ last_fetch = "none"


====
